---- MODULE Spec2Model ----
(***************************************************************************)
(* Model of the input filter orchestrator of                               *)
(* native/services/inputflinger/rust/input_filter.rs: the InputFilter      *)
(* object (a Mutex around {first_filter, enabled}), the four IInputFilter  *)
(* entry points called from several threads, the BaseFilter stage and the  *)
(* receiver (IInputFilterCallbacks) behind it.                             *)
(*                                                                         *)
(* A chain is a sequence of stages, outermost first, each stage a record   *)
(* [id, kind]; the Box a stage owns as `next` is the rest of the sequence. *)
(* Every entry point is split at the points where another thread can be    *)
(* scheduled: the call, the lock acquisition, each statement executed      *)
(* under the lock, and the return that drops the guard.                    *)
(***************************************************************************)
EXTENDS Integers, Sequences, FiniteSets

(* ---- bounds ---- *)
NumThreads == 2
MaxCalls == 2
MaxWakes == 2
MaxTime == 2

Threads == 1..NumThreads

(* ---- inputs ---- *)
\* KeyEvent as built by create_key_event, and a second one differing in
\* several fields (Source::KEYBOARD is 0x101 = 257).
KeyEventA ==
  [id |-> 1, deviceId |-> 1, downTime |-> 0, readTime |-> 0, eventTime |-> 0,
   source |-> 257, displayId |-> 0, policyFlags |-> 0, action |-> "DOWN",
   flags |-> 0, keyCode |-> 0, scanCode |-> 0, metaState |-> 0]
KeyEventB ==
  [id |-> 2, deviceId |-> 1, downTime |-> 5, readTime |-> 6, eventTime |-> 7,
   source |-> 257, displayId |-> 0, policyFlags |-> 0, action |-> "UP",
   flags |-> 0, keyCode |-> 30, scanCode |-> 42, metaState |-> 1]
KeyEvents == {KeyEventA, KeyEventB}
NoEvent == [id |-> 0]

DeviceLists == {<<>>, <<[deviceId |-> 0, external |-> TRUE]>>}

\* InputFilterConfiguration.  The thresholds are i64: every combination of
\* off (0) and on (100), and the configurations with one negative threshold.
Config(sticky, slow, bounce) ==
  [stickyKeysEnabled |-> sticky, slowKeysThresholdNs |-> slow,
   bounceKeysThresholdNs |-> bounce]
Configurations ==
  {Config(s, a, b) : s \in BOOLEAN, a \in {0, 100}, b \in {0, 100}} \cup
  {Config(FALSE, 0 - 1, 0), Config(TRUE, 0, 0 - 1)}
NoConfig == [stickyKeysEnabled |-> FALSE]

VARIABLES
  first_filter,   \* InputFilterState.first_filter: the installed chain
  enabled,        \* InputFilterState.enabled
  owner,          \* thread holding the state Mutex, 0 when free
  poisoned,       \* the Mutex's poison flag
  threadCreated,  \* InputFilterThread holds a host thread
  pc,             \* per thread: position in the entry point it executes
  op,             \* per thread: the entry point of its current or last call
  cfg,            \* per thread: argument of notifyConfigurationChanged
  ev,             \* per thread: argument of notifyKey
  dev,            \* per thread: argument of notifyInputDevicesChanged
  local,          \* per thread: the local `first_filter` of the rebuild
  pos,            \* per thread: index of the stage notify_key is in
  ret,            \* per thread: outcome of the call
  nextId,         \* identity of the next stage object to be constructed
  destroyCalls,   \* per stage id: number of destroy() invocations
  received,       \* receiver: the sendKeyEvent calls, in order
  calls,          \* number of calls made so far
  entry,          \* per thread: {first_filter, enabled} seen when it locked
  sent,           \* per thread: events this call passed to sendKeyEvent
  devNotified,    \* per thread: stages this call invoked notify_devices_changed on
  createFailed,   \* per thread: createInputFilterThread failed in this call
  lastInstalled,  \* chain installed by new or by the last completed rebuild
  acquired,       \* the notifyKey calls in the order they took the lock
  callbacks_readers, \* threads holding a read guard of the callbacks RwLock
  callbacks_writer,  \* thread holding its write guard, 0 when none does
  exit_flag,      \* FakeCppThread.exit_flag
  token,          \* park token of the looper thread: 1 after an unpark
  lpc,            \* looper thread: position in its loop
  wake_up_time,   \* looper thread: argument of the sleepUntil it is in
  clock,          \* CLOCK_MONOTONIC
  fpc,            \* the thread calling finish: position in stop_looper
  wakes,          \* number of wake calls made
  pendingWakes,   \* wake calls completed since the last sleepUntil ended
  sleepLog        \* the last sleepUntil: what preceded it and how it went on

vars == <<first_filter, enabled, owner, poisoned, threadCreated, pc, op, cfg,
          ev, dev, local, pos, ret, nextId, destroyCalls, received, calls,
          entry, sent, devNotified, createFailed, lastInstalled, acquired,
          callbacks_readers, callbacks_writer,
          exit_flag, token, lpc, wake_up_time, clock, fpc, wakes,
          pendingWakes, sleepLog>>

filterVars ==
  <<first_filter, enabled, owner, poisoned, threadCreated, pc, op, cfg, ev,
    dev, local, pos, ret, nextId, destroyCalls, received, calls, entry, sent,
    devNotified, createFailed, lastInstalled, acquired, callbacks_readers,
    callbacks_writer>>

threadVars ==
  <<exit_flag, token, lpc, wake_up_time, clock, fpc, wakes, pendingWakes,
    sleepLog>>

(* ---- stages and chains ---- *)
Stage(id, kind) == [id |-> id, kind |-> kind]

\* BaseFilter::new
BaseFilter_new(id) == <<Stage(id, "base")>>

\* A feature stage constructed around `next`, wrapped at the wrong end.
WrapInnermost(kind, id, next) ==
  SubSeq(next, 1, Len(next) - 1) \o <<Stage(id, kind)>> \o
  SubSeq(next, Len(next), Len(next))

\* Box::new(XxxFilter::new(first_filter, ...)): the new stage owns the chain
\* built so far as its `next`, so it becomes the outermost stage.
Wrap(kind, id, next) == <<Stage(id, kind)>> \o next

KindsOf(chain) == [i \in 1..Len(chain) |-> chain[i].kind]
IdsOf(chain) == {chain[i].id : i \in 1..Len(chain)}
HasFeature(chain) == \E i \in 1..Len(chain) : chain[i].kind # "base"

InitChain == BaseFilter_new(1)

\* The fake host thread as createInputFilterThread hands it out: new has
\* spawned the looper and stored its handle, start_looper has cleared
\* exit_flag, nothing has unparked the looper yet.
NoSleep ==
  [pending |-> 0, must_wait |-> FALSE, after_finish |-> FALSE,
   outcome |-> "none", ended_at |-> 0]
FakeCppThread_new ==
  /\ exit_flag = FALSE
  /\ token = 0
  /\ lpc = "check"
  /\ wake_up_time = 0
  /\ clock = 0
  /\ fpc = "idle"
  /\ wakes = 0
  /\ pendingWakes = 0
  /\ sleepLog = NoSleep
NoEntry == [first_filter |-> <<>>, enabled |-> FALSE]

Init ==
  /\ first_filter = InitChain
  /\ enabled = FALSE
  /\ owner = 0
  /\ poisoned = FALSE
  /\ threadCreated = FALSE
  /\ pc = [t \in Threads |-> "idle"]
  /\ op = [t \in Threads |-> "none"]
  /\ cfg = [t \in Threads |-> NoConfig]
  /\ ev = [t \in Threads |-> NoEvent]
  /\ dev = [t \in Threads |-> <<>>]
  /\ local = [t \in Threads |-> <<>>]
  /\ pos = [t \in Threads |-> 0]
  /\ ret = [t \in Threads |-> "none"]
  /\ nextId = 2
  /\ destroyCalls = <<0>>
  /\ received = <<>>
  /\ calls = 0
  /\ entry = [t \in Threads |-> NoEntry]
  /\ sent = [t \in Threads |-> <<>>]
  /\ devNotified = [t \in Threads |-> <<>>]
  /\ createFailed = [t \in Threads |-> FALSE]
  /\ lastInstalled = InitChain
  /\ acquired = <<>>
  /\ callbacks_readers = {}
  /\ callbacks_writer = 0
  /\ FakeCppThread_new

(* ---- calls ---- *)
\* A thread enters an entry point.
Call(t, name, lockpc) ==
  /\ pc[t] = "idle"
  /\ calls < MaxCalls
  /\ calls' = calls + 1
  /\ pc' = [pc EXCEPT ![t] = lockpc]
  /\ op' = [op EXCEPT ![t] = name]
  /\ ret' = [ret EXCEPT ![t] = "none"]
  /\ createFailed' = [createFailed EXCEPT ![t] = FALSE]
  /\ UNCHANGED <<first_filter, enabled, owner, poisoned, threadCreated, local,
                 pos, nextId, destroyCalls, received, entry, sent, devNotified,
                 lastInstalled>>
  /\ UNCHANGED acquired
  /\ UNCHANGED threadVars
  /\ UNCHANGED <<callbacks_readers, callbacks_writer>>

Call_isEnabled(t) ==
  /\ Call(t, "isEnabled", "ie_lock")
  /\ UNCHANGED <<cfg, ev, dev>>

Call_notifyKey(t) ==
  \E event \in KeyEvents :
    /\ Call(t, "notifyKey", "nk_lock")
    /\ ev' = [ev EXCEPT ![t] = event]
    /\ UNCHANGED <<cfg, dev>>

Call_notifyInputDevicesChanged(t) ==
  \E device_infos \in DeviceLists :
    /\ Call(t, "notifyInputDevicesChanged", "nd_lock")
    /\ dev' = [dev EXCEPT ![t] = device_infos]
    /\ UNCHANGED <<cfg, ev>>

Call_notifyConfigurationChanged(t) ==
  \E config \in Configurations :
    /\ Call(t, "notifyConfigurationChanged", "nc_lock")
    /\ cfg' = [cfg EXCEPT ![t] = config]
    /\ UNCHANGED <<ev, dev>>

(* ---- the callbacks RwLock ---- *)
\* callbacks.read() returns when no thread holds the write guard; readers
\* do not exclude each other.
RwLock_read(t) == callbacks_writer = 0

\* The read guard of thread t is dropped.
RwLockReadGuard_drop(t) == callbacks_readers \ {t}

(* ---- the state Mutex ---- *)
\* A lock that can be taken while another thread holds it.
AcquirableAlways(t) == TRUE

\* Mutex::lock returns only when no thread holds the lock.
Acquirable(t) == owner = 0

LockPcs == {"ie_lock", "nk_lock", "nd_lock", "nc_lock"}
AfterLock(p) ==
  CASE p = "ie_lock" -> "ie_read"
    [] p = "nk_lock" -> "nk_stage"
    [] p = "nd_lock" -> "nd_call"
    [] p = "nc_lock" -> "nc_destroy"

\* A notifyKey whose guard is a temporary of the `let` statement, dropped
\* before the chain is entered.
GuardDroppedEarly(t, p) == IF p = "nk_lock" THEN 0 ELSE t

\* The holder of the Mutex once lock() has returned in the entry point at p.
\* In notifyKey and notifyInputDevicesChanged the guard is borrowed by
\* `first_filter`, so it lives to the end of the function.
GuardHolder(t, p) == t

\* A lock result whose poison is ignored: the guard is taken out of the
\* error.
unwrap_or_into_inner(isPoisoned) == "guard"

\* LockResult::unwrap: the guard, or a panic when the Mutex is poisoned.
unwrap(isPoisoned) == IF isPoisoned THEN "panic" ELSE "guard"

\* self.state.lock().unwrap() on a sound Mutex: the thread holds the guard.
lock_unwrap(t) ==
  /\ pc[t] \in LockPcs
  /\ Acquirable(t)
  /\ unwrap(poisoned) = "guard"
  /\ owner' = GuardHolder(t, pc[t])
  /\ pc' = [pc EXCEPT ![t] = AfterLock(pc[t])]
  /\ pos' = [pos EXCEPT ![t] = IF pc[t] = "nk_lock" THEN 1 ELSE 0]
  /\ entry' = [entry EXCEPT
                 ![t] = [first_filter |-> first_filter, enabled |-> enabled]]
  /\ acquired' = IF pc[t] = "nk_lock"
                 THEN Append(acquired, [event |-> ev[t],
                                        base_only |-> ~HasFeature(first_filter)])
                 ELSE acquired
  /\ UNCHANGED <<first_filter, enabled, poisoned, threadCreated, op, cfg, ev,
                 dev, local, ret, nextId, destroyCalls, received, calls, sent,
                 devNotified, createFailed, lastInstalled>>
  /\ UNCHANGED threadVars
  /\ UNCHANGED <<callbacks_readers, callbacks_writer>>

\* self.state.lock().unwrap() on a poisoned Mutex: lock() returns Err, the
\* guard inside the error is dropped and unwrap panics.
lock_unwrap_poisoned(t) ==
  /\ pc[t] \in LockPcs
  /\ Acquirable(t)
  /\ unwrap(poisoned) = "panic"
  /\ pc' = [pc EXCEPT ![t] = "panicked"]
  /\ ret' = [ret EXCEPT ![t] = "panic"]
  /\ UNCHANGED <<first_filter, enabled, owner, poisoned, threadCreated, op,
                 cfg, ev, dev, local, pos, nextId, destroyCalls, received,
                 calls, entry, sent, devNotified, createFailed, lastInstalled>>
  /\ UNCHANGED acquired
  /\ UNCHANGED threadVars
  /\ UNCHANGED <<callbacks_readers, callbacks_writer>>

\* The function returns: the MutexGuard is dropped, the caller gets r and
\* the arguments and locals of the call are gone.
Return(t, r) ==
  /\ owner' = IF owner = t THEN 0 ELSE owner
  /\ pc' = [pc EXCEPT ![t] = "idle"]
  /\ ret' = [ret EXCEPT ![t] = r]
  /\ cfg' = [cfg EXCEPT ![t] = NoConfig]
  /\ ev' = [ev EXCEPT ![t] = NoEvent]
  /\ dev' = [dev EXCEPT ![t] = <<>>]
  /\ local' = [local EXCEPT ![t] = <<>>]
  /\ pos' = [pos EXCEPT ![t] = 0]
  /\ entry' = [entry EXCEPT ![t] = NoEntry]
  /\ sent' = [sent EXCEPT ![t] = <<>>]
  /\ devNotified' = [devNotified EXCEPT ![t] = <<>>]

(* ---- isEnabled ---- *)
\* Result::Ok(self.state.lock().unwrap().enabled): the guard is a temporary
\* of the statement, dropped once `enabled` has been read.
\* An isEnabled that answers true whatever the flag is.
isEnabled_result_true(flag) == "true"

\* Result::Ok(<the flag read under the lock>)
isEnabled_result(flag) == IF flag THEN "true" ELSE "false"

isEnabled(t) ==
  /\ pc[t] = "ie_read"
  /\ Return(t, isEnabled_result(enabled))
  /\ UNCHANGED <<first_filter, enabled, poisoned, threadCreated, op, nextId,
                 destroyCalls, received, calls, createFailed, lastInstalled>>
  /\ UNCHANGED acquired
  /\ UNCHANGED threadVars
  /\ UNCHANGED <<callbacks_readers, callbacks_writer>>

(* ---- notifyKey ---- *)
\* A base stage that alters the event it sends.
BaseFilter_notify_key_altered(event, ok) ==
  <<[event |-> [event EXCEPT !.metaState = 0], ok |-> ok]>>

\* BaseFilter::notify_key: one sendKeyEvent(event) on the receiver, whose
\* result `ok` is only logged.  The value is the sendKeyEvent calls made.
BaseFilter_notify_key(event, ok) == <<[event |-> event, ok |-> ok]>>

\* A notifyKey that hands a failed send back to its caller.
notifyKey_result_propagated(sends) ==
  IF \E i \in 1..Len(sends) : ~sends[i].ok THEN "Err" ELSE "Ok"

\* notifyKey ends in Result::Ok(()) whatever the stages did.
notifyKey_result(sends) == "Ok"

\* first_filter.notify_key(event) has reached the base stage: the read
\* guard of the callbacks is taken and sendKeyEvent is called under it.
notifyKey_base(t) ==
  /\ pc[t] = "nk_stage"
  /\ pos[t] \in DOMAIN first_filter
  /\ first_filter[pos[t]].kind = "base"
  /\ RwLock_read(t)
  /\ callbacks_readers' = callbacks_readers \cup {t}
  /\ \E ok \in BOOLEAN :
       /\ received' = received \o BaseFilter_notify_key(ev[t], ok)
       /\ sent' = [sent EXCEPT ![t] = @ \o BaseFilter_notify_key(ev[t], ok)]
  /\ pc' = [pc EXCEPT ![t] = "nk_sent"]
  /\ UNCHANGED callbacks_writer
  /\ UNCHANGED <<first_filter, enabled, owner, poisoned, threadCreated, op,
                 cfg, ev, dev, local, pos, ret, nextId, destroyCalls, calls,
                 entry, devNotified, createFailed, lastInstalled>>
  /\ UNCHANGED acquired
  /\ UNCHANGED threadVars

\* The `match` of BaseFilter::notify_key ends: the read guard is dropped.
notifyKey_base_return(t) ==
  /\ pc[t] = "nk_sent"
  /\ callbacks_readers' = RwLockReadGuard_drop(t)
  /\ pc' = [pc EXCEPT ![t] = "nk_ret"]
  /\ UNCHANGED <<first_filter, enabled, owner, poisoned, threadCreated, op,
                 cfg, ev, dev, local, pos, ret, nextId, destroyCalls, received,
                 calls, entry, sent, devNotified, createFailed, lastInstalled,
                 acquired, callbacks_writer>>
  /\ UNCHANGED threadVars

\* A feature stage (sticky, slow or bounce keys) passes the event to the
\* stage it wraps.
notifyKey_forward(t) ==
  /\ pc[t] = "nk_stage"
  /\ pos[t] \in DOMAIN first_filter
  /\ first_filter[pos[t]].kind # "base"
  /\ pos' = [pos EXCEPT ![t] = @ + 1]
  /\ UNCHANGED <<first_filter, enabled, owner, poisoned, threadCreated, pc, op,
                 cfg, ev, dev, local, ret, nextId, destroyCalls, received,
                 calls, entry, sent, devNotified, createFailed, lastInstalled>>
  /\ UNCHANGED acquired
  /\ UNCHANGED threadVars
  /\ UNCHANGED <<callbacks_readers, callbacks_writer>>

\* A feature stage drops or delays the event: notify_key returns without
\* calling the stage it wraps.
notifyKey_consume(t) ==
  /\ pc[t] = "nk_stage"
  /\ pos[t] \in DOMAIN first_filter
  /\ first_filter[pos[t]].kind # "base"
  /\ pc' = [pc EXCEPT ![t] = "nk_ret"]
  /\ UNCHANGED <<first_filter, enabled, owner, poisoned, threadCreated, op,
                 cfg, ev, dev, local, pos, ret, nextId, destroyCalls, received,
                 calls, entry, sent, devNotified, createFailed, lastInstalled>>
  /\ UNCHANGED acquired
  /\ UNCHANGED threadVars
  /\ UNCHANGED <<callbacks_readers, callbacks_writer>>

notifyKey_return(t) ==
  /\ pc[t] = "nk_ret"
  /\ Return(t, notifyKey_result(sent[t]))
  /\ UNCHANGED <<first_filter, enabled, poisoned, threadCreated, op, nextId,
                 destroyCalls, received, calls, createFailed, lastInstalled>>
  /\ UNCHANGED acquired
  /\ UNCHANGED threadVars
  /\ UNCHANGED <<callbacks_readers, callbacks_writer>>

(* ---- notifyInputDevicesChanged ---- *)
\* first_filter.notify_devices_changed(device_infos) on the chain head; the
\* base stage does nothing with it.
\* A dispatch that goes to the innermost stage instead of the head.
notify_devices_changed_innermost(chain, device_infos) ==
  <<[id |-> chain[Len(chain)].id, device_infos |-> device_infos]>>

\* The notify_devices_changed calls the entry point makes: one, on the chain
\* head, with the list it was given.
notify_devices_changed(chain, device_infos) ==
  <<[id |-> chain[1].id, device_infos |-> device_infos]>>

notifyInputDevicesChanged(t) ==
  /\ pc[t] = "nd_call"
  /\ first_filter # <<>>
  /\ devNotified' = [devNotified EXCEPT
                       ![t] = @ \o notify_devices_changed(first_filter, dev[t])]
  /\ pc' = [pc EXCEPT ![t] = "nd_ret"]
  /\ UNCHANGED <<first_filter, enabled, owner, poisoned, threadCreated, op,
                 cfg, ev, dev, local, pos, ret, nextId, destroyCalls, received,
                 calls, entry, sent, createFailed, lastInstalled>>
  /\ UNCHANGED acquired
  /\ UNCHANGED threadVars
  /\ UNCHANGED <<callbacks_readers, callbacks_writer>>

notifyInputDevicesChanged_return(t) ==
  /\ pc[t] = "nd_ret"
  /\ Return(t, "Ok")
  /\ UNCHANGED <<first_filter, enabled, poisoned, threadCreated, op, nextId,
                 destroyCalls, received, calls, createFailed, lastInstalled>>
  /\ UNCHANGED acquired
  /\ UNCHANGED threadVars
  /\ UNCHANGED <<callbacks_readers, callbacks_writer>>

(* ---- notifyConfigurationChanged ---- *)
\* A rebuild that never invokes destroy on the installed head.
Filter_destroy_skipped(chain, counts) == counts

\* state.first_filter.destroy(): destroy is invoked on the head stage.
Filter_destroy(chain, counts) ==
  [i \in DOMAIN counts |->
     IF chain # <<>> /\ chain[1].id = i THEN counts[i] + 1 ELSE counts[i]]

\* A feature stage's destroy invokes destroy on the stage it wraps, down to
\* the base stage.
destroy_cascade(chain, counts) ==
  [i \in DOMAIN counts |->
     IF \E k \in 2..Len(chain) : chain[k].id = i
     THEN counts[i] + 1 ELSE counts[i]]

\* if config.stickyKeysEnabled
stickyKeysSelected(config) == config.stickyKeysEnabled

\* A slow keys test that lets a zero threshold through.
slowKeysSelected_nonneg(config) == config.slowKeysThresholdNs >= 0
\* if config.slowKeysThresholdNs > 0
slowKeysSelected(config) == config.slowKeysThresholdNs > 0

\* if config.bounceKeysThresholdNs > 0
bounceKeysSelected(config) == config.bounceKeysThresholdNs > 0

\* InputFilterThreadCreator::create: createInputFilterThread(..).unwrap()
InputFilterThreadCreator_create(hostOk) == IF hostOk THEN "thread" ELSE "panic"

\* The thread unwinds out of the entry point while holding the guard: the
\* guard's drop poisons the Mutex and unlocks it.
Panic(t) ==
  /\ pc' = [pc EXCEPT ![t] = "panicked"]
  /\ ret' = [ret EXCEPT ![t] = "panic"]
  /\ owner' = IF owner = t THEN 0 ELSE owner
  /\ poisoned' = TRUE

notifyConfigurationChanged_destroy(t) ==
  /\ pc[t] = "nc_destroy"
  /\ destroyCalls' =
       destroy_cascade(first_filter, Filter_destroy(first_filter, destroyCalls))
  /\ pc' = [pc EXCEPT ![t] = "nc_base"]
  /\ UNCHANGED <<first_filter, enabled, owner, poisoned, threadCreated, op,
                 cfg, ev, dev, local, pos, ret, nextId, received, calls, entry,
                 sent, devNotified, createFailed, lastInstalled>>
  /\ UNCHANGED acquired
  /\ UNCHANGED threadVars
  /\ UNCHANGED <<callbacks_readers, callbacks_writer>>

\* let mut first_filter = Box::new(BaseFilter::new(self.callbacks.clone()))
notifyConfigurationChanged_base(t) ==
  /\ pc[t] = "nc_base"
  /\ local' = [local EXCEPT ![t] = BaseFilter_new(nextId)]
  /\ nextId' = nextId + 1
  /\ destroyCalls' = Append(destroyCalls, 0)
  /\ pc' = [pc EXCEPT ![t] = "nc_sticky"]
  /\ UNCHANGED <<first_filter, enabled, owner, poisoned, threadCreated, op,
                 cfg, ev, dev, pos, ret, received, calls, entry, sent,
                 devNotified, createFailed, lastInstalled>>
  /\ UNCHANGED acquired
  /\ UNCHANGED threadVars
  /\ UNCHANGED <<callbacks_readers, callbacks_writer>>

\* The body of an `if` without its `state.enabled = true`.
Install_flag_unset(t, kind) ==
  /\ local' = [local EXCEPT ![t] = Wrap(kind, nextId, @)]
  /\ nextId' = nextId + 1
  /\ destroyCalls' = Append(destroyCalls, 0)
  /\ enabled' = enabled

\* The body of one `if`: the stage is constructed around the local chain and
\* state.enabled is set.
Install(t, kind) ==
  /\ local' = [local EXCEPT ![t] = Wrap(kind, nextId, @)]
  /\ nextId' = nextId + 1
  /\ destroyCalls' = Append(destroyCalls, 0)
  /\ enabled' = TRUE

Skip == UNCHANGED <<local, nextId, destroyCalls, enabled>>

notifyConfigurationChanged_sticky(t) ==
  /\ pc[t] = "nc_sticky"
  /\ IF stickyKeysSelected(cfg[t]) THEN Install(t, "sticky") ELSE Skip
  /\ pc' = [pc EXCEPT ![t] = "nc_slow"]
  /\ UNCHANGED <<first_filter, owner, poisoned, threadCreated, op, cfg, ev,
                 dev, pos, ret, received, calls, entry, sent, devNotified,
                 createFailed, lastInstalled>>
  /\ UNCHANGED acquired
  /\ UNCHANGED threadVars
  /\ UNCHANGED <<callbacks_readers, callbacks_writer>>

\* The slow keys stage is given self.input_filter_thread; it is installed
\* when the host thread is there already, skipped when the threshold is not
\* positive.
notifyConfigurationChanged_slow(t) ==
  /\ pc[t] = "nc_slow"
  /\ \/ /\ ~slowKeysSelected(cfg[t])
        /\ Skip
     \/ /\ slowKeysSelected(cfg[t])
        /\ threadCreated
        /\ Install(t, "slow")
  /\ UNCHANGED threadCreated
  /\ pc' = [pc EXCEPT ![t] = "nc_bounce"]
  /\ UNCHANGED <<first_filter, owner, poisoned, op, cfg, ev, dev, pos, ret,
                 received, calls, entry, sent, devNotified, createFailed,
                 lastInstalled>>
  /\ UNCHANGED acquired
  /\ UNCHANGED threadVars
  /\ UNCHANGED <<callbacks_readers, callbacks_writer>>

\* The slow keys stage asks for the host thread, which is not there yet:
\* InputFilterThreadCreator::create takes the read guard of the callbacks.
notifyConfigurationChanged_slow_read(t) ==
  /\ pc[t] = "nc_slow"
  /\ slowKeysSelected(cfg[t])
  /\ ~threadCreated
  /\ RwLock_read(t)
  /\ callbacks_readers' = callbacks_readers \cup {t}
  /\ pc' = [pc EXCEPT ![t] = "nc_create"]
  /\ UNCHANGED <<first_filter, enabled, owner, poisoned, threadCreated, op,
                 cfg, ev, dev, local, pos, ret, nextId, destroyCalls, received,
                 calls, entry, sent, devNotified, createFailed, lastInstalled,
                 acquired, callbacks_writer>>
  /\ UNCHANGED threadVars

\* The host supplies the thread: create returns it, the read guard is
\* dropped and the slow keys stage is installed.
notifyConfigurationChanged_slow_create(t) ==
  /\ pc[t] = "nc_create"
  /\ InputFilterThreadCreator_create(TRUE) = "thread"
  /\ Install(t, "slow")
  /\ threadCreated' = TRUE
  /\ callbacks_readers' = RwLockReadGuard_drop(t)
  /\ pc' = [pc EXCEPT ![t] = "nc_bounce"]
  /\ UNCHANGED <<first_filter, owner, poisoned, op, cfg, ev, dev, pos, ret,
                 received, calls, entry, sent, devNotified, createFailed,
                 lastInstalled, acquired, callbacks_writer>>
  /\ UNCHANGED threadVars

\* The host fails: the unwrap in create panics, and the unwinding drops the
\* read guard and then the guard of the state.
notifyConfigurationChanged_slow_no_thread(t) ==
  /\ pc[t] = "nc_create"
  /\ InputFilterThreadCreator_create(FALSE) = "panic"
  /\ Panic(t)
  /\ callbacks_readers' = RwLockReadGuard_drop(t)
  /\ UNCHANGED callbacks_writer
  /\ createFailed' = [createFailed EXCEPT ![t] = TRUE]
  /\ UNCHANGED <<first_filter, enabled, threadCreated, op, cfg, ev, dev, local,
                 pos, nextId, destroyCalls, received, calls, entry, sent,
                 devNotified, lastInstalled>>
  /\ UNCHANGED acquired
  /\ UNCHANGED threadVars

notifyConfigurationChanged_bounce(t) ==
  /\ pc[t] = "nc_bounce"
  /\ IF bounceKeysSelected(cfg[t]) THEN Install(t, "bounce") ELSE Skip
  /\ pc' = [pc EXCEPT ![t] = "nc_install"]
  /\ UNCHANGED <<first_filter, owner, poisoned, threadCreated, op, cfg, ev,
                 dev, pos, ret, received, calls, entry, sent, devNotified,
                 createFailed, lastInstalled>>
  /\ UNCHANGED acquired
  /\ UNCHANGED threadVars
  /\ UNCHANGED <<callbacks_readers, callbacks_writer>>

\* A rebuild that leaves the old chain in the state.
assign_first_filter_kept(old, new) == old

\* state.first_filter = first_filter: the value of the field afterwards.
assign_first_filter(old, new) == new

notifyConfigurationChanged_install(t) ==
  /\ pc[t] = "nc_install"
  /\ first_filter' = assign_first_filter(first_filter, local[t])
  /\ pc' = [pc EXCEPT ![t] = "nc_ret"]
  /\ UNCHANGED <<enabled, owner, poisoned, threadCreated, op, cfg, ev, dev,
                 local, pos, ret, nextId, destroyCalls, received, calls, entry,
                 sent, devNotified, createFailed, lastInstalled>>
  /\ UNCHANGED acquired
  /\ UNCHANGED threadVars
  /\ UNCHANGED <<callbacks_readers, callbacks_writer>>

\* The block ends (the guard is dropped) and Result::Ok(()) is returned.
notifyConfigurationChanged_return(t) ==
  /\ pc[t] = "nc_ret"
  /\ Return(t, "Ok")
  /\ lastInstalled' = first_filter
  /\ UNCHANGED <<first_filter, enabled, poisoned, threadCreated, op, nextId,
                 destroyCalls, received, calls, createFailed>>
  /\ UNCHANGED acquired
  /\ UNCHANGED threadVars
  /\ UNCHANGED <<callbacks_readers, callbacks_writer>>

(* ---- specification ---- *)
Next ==
  \E t \in Threads :
    \/ Call_isEnabled(t)
    \/ Call_notifyKey(t)
    \/ Call_notifyInputDevicesChanged(t)
    \/ Call_notifyConfigurationChanged(t)
    \/ lock_unwrap(t)
    \/ lock_unwrap_poisoned(t)
    \/ isEnabled(t)
    \/ notifyKey_base(t)
    \/ notifyKey_base_return(t)
    \/ notifyKey_forward(t)
    \/ notifyKey_consume(t)
    \/ notifyKey_return(t)
    \/ notifyInputDevicesChanged(t)
    \/ notifyInputDevicesChanged_return(t)
    \/ notifyConfigurationChanged_destroy(t)
    \/ notifyConfigurationChanged_base(t)
    \/ notifyConfigurationChanged_sticky(t)
    \/ notifyConfigurationChanged_slow(t)
    \/ notifyConfigurationChanged_slow_read(t)
    \/ notifyConfigurationChanged_slow_create(t)
    \/ notifyConfigurationChanged_slow_no_thread(t)
    \/ notifyConfigurationChanged_bounce(t)
    \/ notifyConfigurationChanged_install(t)
    \/ notifyConfigurationChanged_return(t)

Spec == Init /\ [][Next]_vars

\* What thread t does next inside the call it is in; when a call is made is
\* the caller's choice.
Step(t) ==
  \/ lock_unwrap(t)
  \/ lock_unwrap_poisoned(t)
  \/ isEnabled(t)
  \/ notifyKey_base(t)
  \/ notifyKey_base_return(t)
  \/ notifyKey_forward(t)
  \/ notifyKey_consume(t)
  \/ notifyKey_return(t)
  \/ notifyInputDevicesChanged(t)
  \/ notifyInputDevicesChanged_return(t)
  \/ notifyConfigurationChanged_destroy(t)
  \/ notifyConfigurationChanged_base(t)
  \/ notifyConfigurationChanged_sticky(t)
  \/ notifyConfigurationChanged_slow(t)
  \/ notifyConfigurationChanged_slow_read(t)
  \/ notifyConfigurationChanged_slow_create(t)
  \/ notifyConfigurationChanged_slow_no_thread(t)
  \/ notifyConfigurationChanged_bounce(t)
  \/ notifyConfigurationChanged_install(t)
  \/ notifyConfigurationChanged_return(t)

\* Fair scheduling: a thread that can take its next step is not held back
\* for ever.
SpecFair == Spec /\ \A t \in Threads : WF_vars(Step(t))

\* ---------------------------------------------------------------------
\* FakeCppThread: the host thread of the tests, a looper and its callers.
\* ---------------------------------------------------------------------

\* i64::MAX, the wake-up time that means "no deadline". Only compared for
\* equality and never reached by the clock; the value is the largest the
\* model checker's integers hold.
I64_MAX == 2147483647

Deadlines == (0..MaxTime) \cup {I64_MAX}

\* std::thread::Thread::unpark: makes the token available; a token that is
\* already available stays a single token.
unpark(tok) == 1

\* How the call sleepUntil(w) goes on when the clock reads now and the park
\* token is tok. MAX parks; a finite deadline is turned into the timeout
\* Duration(w) - Duration(now), a subtraction that panics when w < now;
\* park and park_timeout return at once when the token is available, and
\* park_timeout does so too when the timeout is zero.
sleepUntil_outcome(w, now, tok) ==
  IF w = I64_MAX
    THEN IF tok = 1 THEN "at_once" ELSE "blocked"
    ELSE IF w < now
      THEN "panicked"
      ELSE IF tok = 1 \/ w = now THEN "at_once" ELSE "blocked"

\* create_looper's closure: the load of exit_flag that finds it false. With
\* the flag true the closure spins on the load and changes nothing.
FakeCppThread_looper_check ==
  /\ lpc = "check"
  /\ ~exit_flag
  /\ lpc' = "loop_once"
  /\ UNCHANGED <<exit_flag, token, wake_up_time, clock, fpc, wakes,
                 pendingWakes, sleepLog>>
  /\ UNCHANGED filterVars

\* loop_once: callback.loopOnce() begins; the callback picks the time of its
\* next timer and asks the thread to sleep until then.
FakeCppThread_loop_once ==
  /\ lpc = "loop_once"
  /\ \E w \in Deadlines : wake_up_time' = w
  /\ lpc' = "sleepUntil"
  /\ sleepLog' = [NoSleep EXCEPT !.after_finish = (fpc = "done"),
                                 !.outcome = "called"]
  /\ UNCHANGED <<exit_flag, token, clock, fpc, wakes, pendingWakes>>
  /\ UNCHANGED filterVars

\* sleepUntil, from reading the clock to park / park_timeout taking the
\* token, blocking, or the subtraction panicking.
FakeCppThread_sleepUntil ==
  /\ lpc = "sleepUntil"
  /\ LET o == sleepUntil_outcome(wake_up_time, clock, token) IN
       /\ lpc' = CASE o = "at_once" -> "check"
                   [] o = "blocked" -> "blocked"
                   [] OTHER -> "panicked"
       /\ token' = IF o = "at_once" THEN 0 ELSE token
       /\ pendingWakes' = IF o = "at_once" THEN 0 ELSE pendingWakes
       /\ sleepLog' = [pending |-> pendingWakes,
                       must_wait |-> (wake_up_time = I64_MAX
                                      \/ wake_up_time > clock),
                       after_finish |-> sleepLog.after_finish \/ fpc = "done",
                       outcome |-> o,
                       ended_at |-> IF o = "at_once" THEN clock ELSE 0]
  /\ UNCHANGED <<exit_flag, wake_up_time, clock, fpc, wakes>>
  /\ UNCHANGED filterVars

\* The parked looper finds the token: park / park_timeout returns.
FakeCppThread_sleepUntil_unparked ==
  /\ lpc = "blocked"
  /\ token = 1
  /\ token' = 0
  /\ pendingWakes' = 0
  /\ lpc' = "check"
  /\ sleepLog' = [sleepLog EXCEPT !.outcome = "woken", !.ended_at = clock]
  /\ UNCHANGED <<exit_flag, wake_up_time, clock, fpc, wakes>>
  /\ UNCHANGED filterVars

\* The timeout of park_timeout runs out.
FakeCppThread_sleepUntil_timed_out ==
  /\ lpc = "blocked"
  /\ token = 0
  /\ wake_up_time # I64_MAX
  /\ clock >= wake_up_time
  /\ lpc' = "check"
  /\ sleepLog' = [sleepLog EXCEPT !.outcome = "timed_out",
                                  !.ended_at = clock]
  /\ UNCHANGED <<exit_flag, token, wake_up_time, clock, fpc, wakes,
                 pendingWakes>>
  /\ UNCHANGED filterVars

\* wake: the join handle is there since new, so the looper is unparked.
FakeCppThread_wake ==
  /\ wakes < MaxWakes
  /\ wakes' = wakes + 1
  /\ token' = unpark(token)
  /\ pendingWakes' = pendingWakes + 1
  /\ UNCHANGED <<exit_flag, lpc, wake_up_time, clock, fpc, sleepLog>>
  /\ UNCHANGED filterVars

\* finish calls stop_looper: first the store of exit_flag ...
FakeCppThread_stop_looper_store ==
  /\ fpc = "idle"
  /\ exit_flag' = TRUE
  /\ fpc' = "stored"
  /\ UNCHANGED <<token, lpc, wake_up_time, clock, wakes, pendingWakes,
                 sleepLog>>
  /\ UNCHANGED filterVars

\* ... then the unpark of the looper, after which finish returns Ok.
FakeCppThread_stop_looper_unpark ==
  /\ fpc = "stored"
  /\ token' = unpark(token)
  /\ fpc' = "done"
  /\ UNCHANGED <<exit_flag, lpc, wake_up_time, clock, wakes, pendingWakes,
                 sleepLog>>
  /\ UNCHANGED filterVars

\* CLOCK_MONOTONIC advances; a timeout that has run out is served first.
Tick ==
  /\ clock < MaxTime
  /\ ~(lpc = "blocked" /\ wake_up_time # I64_MAX /\ clock >= wake_up_time)
  /\ clock' = clock + 1
  /\ UNCHANGED <<exit_flag, token, lpc, wake_up_time, fpc, wakes,
                 pendingWakes, sleepLog>>
  /\ UNCHANGED filterVars

NextFakeCppThread ==
  \/ FakeCppThread_looper_check
  \/ FakeCppThread_loop_once
  \/ FakeCppThread_sleepUntil
  \/ FakeCppThread_sleepUntil_unparked
  \/ FakeCppThread_sleepUntil_timed_out
  \/ FakeCppThread_wake
  \/ FakeCppThread_stop_looper_store
  \/ FakeCppThread_stop_looper_unpark
  \/ Tick

SpecFakeCppThread == Init /\ [][NextFakeCppThread]_vars

TypeOK ==
  /\ owner \in Threads \cup {0}
  /\ enabled \in BOOLEAN
  /\ calls \in 0..MaxCalls
  /\ Len(destroyCalls) = nextId - 1

(* ---- properties ---- *)
HeldPcs ==
  {"ie_read", "nk_stage", "nk_sent", "nk_ret", "nd_call", "nd_ret",
   "nc_destroy", "nc_base", "nc_sticky", "nc_slow", "nc_create", "nc_bounce",
   "nc_install", "nc_ret"}
RebuildPcs ==
  {"nc_destroy", "nc_base", "nc_sticky", "nc_slow", "nc_create", "nc_bounce",
   "nc_install", "nc_ret"}
DestroyedPcs == RebuildPcs \ {"nc_destroy"}

HasKind(chain, kind) == \E i \in 1..Len(chain) : chain[i].kind = kind
CountKind(chain, kind) ==
  Cardinality({i \in 1..Len(chain) : chain[i].kind = kind})
OldChain(t) == entry[t].first_filter

\* C1: whenever isEnabled can take the lock and return, the flag it returns
\* is true if and only if the installed chain has a stage other than the
\* base stage.
C1_EnabledIffFeature ==
  (owner = 0 /\ ~poisoned) => (enabled <=> HasFeature(first_filter))

\* C2: while a notifyKey is in the chain, the installed chain is the one it
\* found when it took the lock, that chain is a whole chain (the one new
\* built or a finished rebuild left), and no stage of it has been destroyed.
C2_KeySeesWholeChain ==
  \A t \in Threads :
    pc[t] \in {"nk_stage", "nk_ret"} =>
      /\ first_filter = OldChain(t)
      /\ first_filter = lastInstalled
      /\ \A i \in IdsOf(first_filter) : destroyCalls[i] = 0
      /\ \A u \in Threads : pc[u] \notin RebuildPcs

C2_Witness ==
  \E t, u \in Threads :
    pc[t] = "nk_stage" /\ pc[u] = "nc_lock" /\ first_filter = OldChain(t)

\* C3: at most one thread at a time is past the lock acquisition of an entry
\* point, and that thread is the lock's owner.
C3_MutualExclusion ==
  \A t, u \in Threads :
    pc[t] \in HeldPcs => (owner = t /\ (u # t => pc[u] \notin HeldPcs))

C3_Witness ==
  \E t, u \in Threads :
    t # u /\ pc[t] = "nk_stage" /\ pc[u] = "nk_lock" /\ owner = t

\* C4: a notifyConfigurationChanged with a negative threshold leaves the
\* installed chain undestroyed and in place and the enabled flag as it was.
Malformed(config) ==
  config.slowKeysThresholdNs < 0 \/ config.bounceKeysThresholdNs < 0

C4_MalformedRejected ==
  \A t \in Threads :
    (pc[t] \in RebuildPcs /\ Malformed(cfg[t])) =>
      /\ first_filter = OldChain(t)
      /\ enabled = entry[t].enabled
      /\ \A i \in IdsOf(OldChain(t)) : destroyCalls[i] = 0

\* C5: once a notifyConfigurationChanged is past its destroy call, destroy
\* has been invoked exactly once on every stage of the chain it found; this
\* is so while that chain is still installed and the lock still held, and no
\* stage is ever destroyed twice.
C5_DestroyedOnceBeforeInstall ==
  /\ \A i \in 1..Len(destroyCalls) : destroyCalls[i] <= 1
  /\ \A t \in Threads :
       pc[t] \in DestroyedPcs =>
         /\ owner = t
         /\ \A i \in IdsOf(OldChain(t)) : destroyCalls[i] = 1
         /\ pc[t] # "nc_ret" => first_filter = OldChain(t)

C5_Witness ==
  \E t \in Threads :
    /\ pc[t] = "nc_install"
    /\ Len(OldChain(t)) >= 2
    /\ KindsOf(local[t]) = KindsOf(OldChain(t))
    /\ \A i \in IdsOf(OldChain(t)) : destroyCalls[i] = 1

\* C6: the installed chain lists its stages as bounce keys, slow keys, sticky
\* keys, base, leaving out the features the configuration does not enable;
\* a key event is in the base stage only as the last stage of the chain.
FeatureOrder == <<"bounce", "slow", "sticky", "base">>
Enables(config, kind) ==
  CASE kind = "bounce" -> config.bounceKeysThresholdNs > 0
    [] kind = "slow" -> config.slowKeysThresholdNs > 0
    [] kind = "sticky" -> config.stickyKeysEnabled
    [] kind = "base" -> TRUE
Rank(kind) == CHOOSE i \in 1..4 : FeatureOrder[i] = kind
InOrder(chain) ==
  \A i, j \in 1..Len(chain) :
    i < j => Rank(chain[i].kind) < Rank(chain[j].kind)

C6_ChainOrder ==
  /\ InOrder(first_filter)
  /\ \A t \in Threads :
       /\ pc[t] = "nc_ret" =>
            /\ \A k \in {"bounce", "slow", "sticky", "base"} :
                 HasKind(first_filter, k) <=> Enables(cfg[t], k)
            /\ first_filter[Len(first_filter)].kind = "base"
       /\ (pc[t] = "nk_stage" /\ first_filter[pos[t]].kind = "base") =>
            pos[t] = Len(first_filter)

C6_Witness ==
  \E t \in Threads :
    /\ pc[t] = "nk_stage"
    /\ pos[t] = 4
    /\ KindsOf(first_filter) = FeatureOrder

\* What a finished rebuild installed, whatever the thresholds' test is: one
\* base stage, each feature stage at most once, stages constructed by this
\* call and never destroyed, none of them a stage of the chain it replaced.
FreshChain(t) ==
  /\ CountKind(first_filter, "base") = 1
  /\ \A k \in {"sticky", "slow", "bounce"} : CountKind(first_filter, k) <= 1
  /\ Cardinality(IdsOf(first_filter)) = Len(first_filter)
  /\ IdsOf(first_filter) \cap IdsOf(OldChain(t)) = {}
  /\ \A i \in IdsOf(first_filter) :
       destroyCalls[i] = 0 /\ i >= Len(destroyCalls) - 3
  /\ HasKind(first_filter, "sticky") <=> cfg[t].stickyKeysEnabled

C8_CreateFailureSurfaced ==
  \A t \in Threads :
    createFailed[t] =>
      /\ ret[t] = "Err"
      /\ ~HasKind(first_filter, "slow")

\* C9: a notifyKey whose sendKeyEvent failed returns Ok like any other, with
\* the installed chain and the enabled flag as it found them and the lock
\* sound and released; a notifyKey that gets to the base stage makes its one
\* sendKeyEvent call whatever earlier sends returned.
SendFailed(sends) == \E i \in 1..Len(sends) : ~sends[i].ok

C9_SendFailureSwallowed ==
  \A t \in Threads :
    /\ (pc[t] = "nk_ret" /\ SendFailed(sent[t])) =>
         /\ notifyKey_result(sent[t]) = "Ok"
         /\ first_filter = OldChain(t)
         /\ enabled = entry[t].enabled
         /\ ~poisoned
    /\ (pc[t] = "idle" /\ op[t] = "notifyKey") =>
         (ret[t] = "Ok" /\ owner # t)
    /\ (pc[t] = "nk_ret" /\ pos[t] = Len(first_filter)) =>
         /\ Len(sent[t]) = 1
         /\ received # <<>>
         /\ received[Len(received)] = sent[t][1]

C9_Witness ==
  \E t \in Threads :
    /\ pc[t] = "nk_ret"
    /\ Len(sent[t]) = 1
    /\ Len(received) = 2
    /\ ~received[1].ok
    /\ \E u \in Threads : pc[u] = "idle" /\ op[u] = "notifyKey" /\ ret[u] = "Ok"

\* C10: a notifyKey that finds the chain built by new installed makes
\* exactly one sendKeyEvent call, with an event equal to its argument, and
\* that call is the receiver's latest.
C10_BaseForwardsUnchanged ==
  \A t \in Threads :
    (pc[t] = "nk_ret" /\ OldChain(t) = InitChain) =>
      /\ Len(sent[t]) = 1
      /\ sent[t][1].event = ev[t]
      /\ received # <<>>
      /\ received[Len(received)].event = ev[t]

C10_Witness ==
  \E t \in Threads :
    /\ pc[t] = "nk_ret"
    /\ OldChain(t) = InitChain
    /\ ev[t] = KeyEventB
    /\ Len(received) = 2
    /\ received[1].event = KeyEventA
    /\ received[2].event = KeyEventB

\* C11: while no notifyConfigurationChanged has got past the lock, isEnabled
\* reads a false flag and the isEnabled calls that returned returned false,
\* however many notifyKey and notifyInputDevicesChanged calls were made.
NotConfigured ==
  /\ destroyCalls[1] = 0
  /\ \A u \in Threads : pc[u] \notin RebuildPcs

C11_DisabledUntilConfigured ==
  \A t \in Threads :
    NotConfigured =>
      /\ pc[t] = "ie_read" => isEnabled_result(enabled) = "false"
      /\ (pc[t] = "idle" /\ op[t] = "isEnabled") => ret[t] = "false"

C11_Witness ==
  \E t, u \in Threads :
    /\ NotConfigured
    /\ pc[t] = "idle" /\ op[t] = "isEnabled" /\ ret[t] = "false"
    /\ pc[u] = "idle" /\ op[u] \in {"notifyKey", "notifyInputDevicesChanged"}
    /\ calls = MaxCalls

\* C12: a notifyConfigurationChanged that enables exactly one feature and
\* gets to its return has the flag set and returns Ok, and an isEnabled that
\* reads the state while a chain with a feature stage is installed returns
\* true.
ExactlyOneFeature(config) ==
  Cardinality({k \in {"sticky", "slow", "bounce"} : Enables(config, k)}) = 1

C12_OneFeatureEnables ==
  \A t \in Threads :
    /\ (pc[t] = "nc_ret" /\ ExactlyOneFeature(cfg[t])) =>
         (enabled /\ Len(first_filter) = 2)
    /\ (pc[t] = "idle" /\ op[t] = "notifyConfigurationChanged") =>
         ret[t] = "Ok"
    /\ (pc[t] = "ie_read" /\ HasFeature(first_filter)) =>
         isEnabled_result(enabled) = "true"

C12_Witness ==
  \E t, u \in Threads :
    /\ pc[t] = "ie_read"
    /\ Len(first_filter) = 2
    /\ enabled
    /\ pc[u] = "idle" /\ op[u] = "notifyConfigurationChanged" /\ ret[u] = "Ok"

\* C13: a notifyInputDevicesChanged past its dispatch has made exactly one
\* notify_devices_changed call, on the head of the installed chain and with
\* the list it was given, holds the lock, and has left the chain and the flag
\* as it found them; the dispatch step leaves the receiver and the
\* orchestrator state untouched, and the call returns Ok.
C13_DevicesDispatched ==
  /\ [](\A t \in Threads :
          /\ pc[t] = "nd_ret" =>
               /\ devNotified[t] =
                    <<[id |-> first_filter[1].id, device_infos |-> dev[t]]>>
               /\ owner = t
               /\ first_filter = OldChain(t)
               /\ enabled = entry[t].enabled
          /\ (pc[t] = "idle" /\ op[t] = "notifyInputDevicesChanged") =>
               ret[t] = "Ok")
  /\ [][\A t \in Threads :
          (pc[t] \in {"nd_call", "nd_ret"} /\ pc'[t] # pc[t]) =>
            /\ received' = received
            /\ first_filter' = first_filter
            /\ enabled' = enabled
            /\ destroyCalls' = destroyCalls
            /\ poisoned' = poisoned]_vars

C13_Witness ==
  \E t \in Threads :
    /\ pc[t] = "nd_ret"
    /\ dev[t] # <<>>
    /\ Len(first_filter) >= 2
    /\ Len(devNotified[t]) = 1

\* C18: once a thread has panicked while holding the lock, no thread is
\* ever past the lock acquisition again, and every step taken from then on
\* leaves the chain, the flag, the stages and the receiver as they were and
\* ends no call with a normal result.
C18_PoisonFailsLoudly ==
  /\ [](poisoned => (owner = 0 /\ \A t \in Threads : pc[t] \notin HeldPcs))
  /\ [][poisoned =>
          /\ first_filter' = first_filter
          /\ enabled' = enabled
          /\ destroyCalls' = destroyCalls
          /\ received' = received
          /\ sent' = sent
          /\ devNotified' = devNotified
          /\ \A t \in Threads : ret'[t] \in {ret[t], "none", "panic"}]_vars

C18_Witness ==
  \E t, u \in Threads :
    /\ poisoned
    /\ pc[t] = "panicked" /\ createFailed[t]
    /\ pc[u] = "panicked" /\ ~createFailed[u] /\ ret[u] = "panic"
    /\ op[u] \in {"isEnabled", "notifyKey", "notifyInputDevicesChanged",
                  "notifyConfigurationChanged"}

\* C19: a stage on which destroy has been invoked is never invoked again:
\* the chain a notifyKey or a notifyInputDevicesChanged is in, and the chain
\* a notifyConfigurationChanged is about to destroy, hold no destroyed stage,
\* and no stage's destroy count goes beyond one.
Destroyed(chain) == {i \in IdsOf(chain) : destroyCalls[i] > 0}

C19_NoUseAfterDestroy ==
  /\ [](\A t \in Threads :
          pc[t] \in {"nk_stage", "nk_ret", "nd_call", "nd_ret", "nc_destroy"}
            => Destroyed(first_filter) = {})
  /\ [][\A i \in 1..Len(destroyCalls) :
          destroyCalls[i] > 0 => destroyCalls'[i] = destroyCalls[i]]_vars

C19_Witness ==
  \E t \in Threads :
    /\ pc[t] \in {"nk_stage", "nd_call", "nc_destroy"}
    /\ \E i \in 1..Len(destroyCalls) : destroyCalls[i] = 1
    /\ Destroyed(first_filter) = {}

\* C20: as long as every notifyKey found a base-only chain, the events the
\* receiver has been sent are the events of the notifyKey calls in the order
\* those calls took the lock, each once; the only call not yet in the
\* receiver's list is the one that holds the lock and has not sent yet.
EventsOf(log) == [i \in 1..Len(log) |-> log[i].event]
InFlight == Cardinality({t \in Threads : pc[t] = "nk_stage"})

C20_ReceiverOrderIsLockOrder ==
  (\A i \in 1..Len(acquired) : acquired[i].base_only) =>
    /\ Len(received) = Len(acquired) - InFlight
    /\ EventsOf(received) = SubSeq(EventsOf(acquired), 1, Len(received))
    /\ InFlight <= 1

C20_Witness ==
  /\ Len(received) = 2
  /\ received[1].event # received[2].event
  /\ EventsOf(received) = EventsOf(acquired)
  /\ \A t \in Threads : op[t] = "notifyKey"
  /\ \A i \in 1..Len(acquired) : acquired[i].base_only

\* ---------------------------------------------------------------------
\* Properties of FakeCppThread
\* ---------------------------------------------------------------------

Outcomes == {"none", "called", "at_once", "blocked", "woken", "timed_out",
             "panicked"}

ThreadTypeOK ==
  /\ exit_flag \in BOOLEAN
  /\ token \in {0, 1}
  /\ lpc \in {"check", "loop_once", "sleepUntil", "blocked", "panicked"}
  /\ wake_up_time \in Deadlines
  /\ clock \in 0..MaxTime
  /\ fpc \in {"idle", "stored", "done"}
  /\ wakes \in 0..MaxWakes
  /\ pendingWakes \in 0..MaxWakes
  /\ sleepLog.outcome \in Outcomes

\* The last sleepUntil has ended by returning Ok.
Returned == sleepLog.outcome \in {"at_once", "woken", "timed_out"}

\* C14: a wake that completes before sleepUntil starts to block is not lost:
\* that sleepUntil returns at once, whatever its deadline, MAX included.
C14_WakeBeforeSleepNotLost ==
  sleepLog.pending >= 1 => sleepLog.outcome = "at_once"

\* C15: once finish has returned, no loopOnce and no sleepUntil begins on the
\* thread, and a sleepUntil that is blocked has been unparked and returns.
C15_NoSleepAfterFinish ==
  /\ ~sleepLog.after_finish
  /\ (fpc = "done" /\ lpc = "blocked") => token = 1

\* C16: sleepUntil(MAX) ends only by being unparked, never by a timeout;
\* sleepUntil with a finite deadline, one not later than the current time
\* included, returns Ok and does so no later than the deadline.
C16_SleepReturnsByDeadline ==
  /\ sleepLog.outcome # "panicked"
  /\ lpc # "panicked"
  /\ (wake_up_time = I64_MAX) => sleepLog.outcome # "timed_out"
  /\ (wake_up_time = I64_MAX /\ sleepLog.outcome = "at_once") =>
       (sleepLog.pending >= 1 \/ sleepLog.after_finish \/ fpc # "idle")
  /\ (wake_up_time # I64_MAX /\ lpc = "blocked") => clock <= wake_up_time
  /\ (wake_up_time # I64_MAX /\ Returned /\ sleepLog.must_wait) =>
       sleepLog.ended_at <= wake_up_time

\* C17: wake is idempotent: however many wakes precede a sleepUntil, the
\* thread holds one token as after a single wake, so that sleepUntil returns
\* at once, and a sleepUntil that no wake and no finish precedes blocks when
\* its deadline lies ahead.
C17_WakeIdempotent ==
  /\ token \in {0, 1}
  /\ (pendingWakes >= 1) => token = 1
  /\ (sleepLog.pending >= 1) => (sleepLog.outcome = "at_once" /\ Returned)
  /\ (sleepLog.pending = 0 /\ ~sleepLog.after_finish /\ fpc = "idle"
      /\ sleepLog.must_wait /\ sleepLog.outcome \notin {"none", "called"}) =>
       sleepLog.outcome \in {"blocked", "woken", "timed_out"}

\* ---------------------------------------------------------------------
\* Deadlock freedom of the orchestrator
\* ---------------------------------------------------------------------

\* The read guard of the callbacks is only held by the holder of the state
\* Mutex, and no thread asks for the Mutex while it holds a read guard.
LockOrder ==
  \A t \in Threads :
    /\ t \in callbacks_readers => owner = t
    /\ pc[t] \in LockPcs => t \notin callbacks_readers

\* No thread holds the write guard of the callbacks.
NoWriter == callbacks_writer = 0

\* A thread inside a call is not stuck: it can step, or it waits for the
\* Mutex and the holder is inside a call of its own.
NoneStuck ==
  \A t \in Threads :
    pc[t] \notin {"idle", "panicked"} =>
      \/ ENABLED Step(t)
      \/ /\ pc[t] \in LockPcs
         /\ owner \in Threads \ {t}
         /\ pc[owner] \in HeldPcs
         /\ ENABLED Step(owner)

\* Every call ends: it returns or it unwinds with a panic.
CallsEnd ==
  \A t \in Threads : (pc[t] # "idle") ~> (pc[t] \in {"idle", "panicked"})

\* C21: the Mutex is taken before the read lock of the callbacks and never
\* the other way round, the write side is never taken, and under fair
\* scheduling every call of every caller eventually returns.
C21_CallsReturn ==
  /\ [](LockOrder /\ NoWriter)
  /\ \A t \in Threads : (pc[t] # "idle") ~> (pc[t] = "idle")

====
